---- MODULE Spec2Model ----
(***************************************************************************)
(* Model of the enhanced shared agent graph of mia-api                     *)
(* (SmartAgentSystem.create_enhanced_shared_system), of the guide_agent    *)
(* wrapper every node function is decorated with, of the validation step   *)
(* and of the TransferLoopDetector.                                        *)
(*                                                                         *)
(* A graph node and the conditional edge that follows it form one action.  *)
(* The state dictionary is modelled by one variable per key; an assignment *)
(* state[key] = v made by a node or by an edge function is an assignment   *)
(* to that variable.  Strings the code builds with f-strings are records   *)
(* of their parts; a tool name is the pair (prefix, rest) so that          *)
(* startswith("transfer_to_") and replace("transfer_to_", "") are          *)
(* computed on the name.                                                   *)
(***************************************************************************)
EXTENDS Integers, Sequences, FiniteSets, TLC

VARIABLES
    node,                      \* the graph node that runs next
    messages,                  \* state["messages"]
    current_agent,             \* state["current_agent"]
    retry_context,             \* state["retry_context"]
    transfer_history,          \* state["transfer_history"]
    loop_prevention_guidance,  \* state["loop_prevention_guidance"]
    events,                    \* what the nodes gave to the stream writer
    steps,                     \* agent invocations made so far
    multi,                     \* responses with several tool calls so far
    last_route,                \* the last decision of should_continue
    reexec,                    \* re-executions after a validation failure, this turn
    rejected,                  \* contents the validator rejected
    judged,                    \* the last validator verdict and what it did
    dt_phase,                  \* detector harness: "input" or "done"
    dt_current,                \* detector harness: current_agent argument
    dt_target,                 \* detector harness: target_agent argument
    dt_transfers,              \* detector harness: transfers argument
    dt_result,                 \* detector harness: the results returned
    wr_phase,                  \* wrapper harness: "input" or "done"
    wr_in,                     \* wrapper harness: the agent, the state, the response
    wr_out,                    \* wrapper harness: what the wrapper returned
    sv_pc,                     \* service: where each stream_chat invocation is
    sv_values,                 \* service: the message log each invocation holds
    sv_checkpoint,             \* service: the persisted message log of the thread
    sv_events,                 \* service: the events each invocation yielded
    sv_auth,                   \* service: whether the user of the thread is authenticated
    sv_final,                  \* service: the persisted log when each turn ended
    sv_bg,                     \* service: the log each background task processed
    sv_system_type,            \* service: ChatService.system_type
    sv_agent_system,           \* service: ChatService._agent_system
    sv_switch,                 \* service: the last call of switch_system
    rt_phase,                  \* retry harness: "input" or "done"
    rt_in,                     \* retry harness: the state given to the function
    rt_out                     \* retry harness: what the function did

vars == <<node, messages, current_agent, retry_context, transfer_history,
          loop_prevention_guidance, events, steps, multi, last_route, reexec,
          rejected, judged, dt_phase, dt_current, dt_target, dt_transfers,
          dt_result, wr_phase, wr_in, wr_out, sv_pc, sv_values, sv_checkpoint,
          sv_events, sv_auth, sv_final, sv_bg, sv_system_type, sv_agent_system,
          sv_switch, rt_phase, rt_in, rt_out>>

graphVars == <<node, messages, current_agent, retry_context, transfer_history,
               loop_prevention_guidance, events, steps, multi, last_route,
               reexec, rejected, judged>>

dtVars == <<dt_phase, dt_current, dt_target, dt_transfers, dt_result>>

wrVars == <<wr_phase, wr_in, wr_out>>

svVars == <<sv_pc, sv_values, sv_checkpoint, sv_events, sv_auth, sv_final, sv_bg,
           sv_system_type, sv_agent_system, sv_switch>>

rtVars == <<rt_phase, rt_in, rt_out>>

----------------------------------------------------------------------------
(* Bounds of the model *)

\* agent invocations in a turn
MaxSteps == 3

\* responses with several tool calls in a turn
MaxMulti == 1

\* largest retry_count given to the retry controller
MaxRetryCount == 3

\* stream_chat invocations on one thread
MaxInvocations == 2

\* graph steps of one invocation of stream_chat
MaxRunSteps == 2

\* length of the message log given to the wrapper of an agent
MaxLog == 32

\* length of the transfer window given to the detector
MaxWindow == 4

\* calls of switch_system on one service
MaxSwitches == 3

----------------------------------------------------------------------------
(* Program constants *)

None == "None"

\* retry_context = None (a record, to be comparable with a retry context)
NoRetry == [none |-> TRUE]

END == "__end__"

Agents == {"Broker", "lead_seeker", "Market_Analyst", "Concierge_Agent"}

SpectatorAgents == {"validator", "suggestion_agent"}

HandoffPrefix == "transfer_to_"

max_history == 10

loop_threshold == 2

max_retries == 2

MAX_MESSAGES == 30

MaxTransferHistory == 10

is_spectator_agent(name) == name \in SpectatorAgents

----------------------------------------------------------------------------
(* Sequence helpers *)

Last(s) == s[Len(s)]

\* Python s[-n:]
Tail_n(s, n) == IF Len(s) <= n THEN s ELSE SubSeq(s, Len(s) - n + 1, Len(s))

Reverse(s) == [i \in 1..Len(s) |-> s[Len(s) + 1 - i]]

RECURSIVE Flatten(_)
Flatten(ss) == IF ss = <<>> THEN <<>> ELSE Head(ss) \o Flatten(Tail(ss))

----------------------------------------------------------------------------
(* Messages and tool calls *)

ToolName(prefix, rest) == [prefix |-> prefix, rest |-> rest]

startswith_transfer(name) == name.prefix = HandoffPrefix

replace_transfer(name) == name.rest

HumanMessage(c) ==
    [type |-> "human", content |-> c, json |-> FALSE, tool_calls |-> <<>>,
     agent |-> "user", tool_call_id |-> 0, name |-> ToolName("", "")]

AIMessage(c, j, calls, a) ==
    [type |-> "ai", content |-> c, json |-> j, tool_calls |-> calls,
     agent |-> a, tool_call_id |-> 0, name |-> ToolName("", "")]

ToolMessage(c, id, nm) ==
    [type |-> "tool", content |-> c, json |-> FALSE, tool_calls |-> <<>>,
     agent |-> "tools", tool_call_id |-> id, name |-> nm]

\* content of the corrective instruction of a retry
RetryInstruction == 4000

SystemMessage(c) ==
    [type |-> "system", content |-> c, json |-> FALSE, tool_calls |-> <<>>,
     agent |-> "system", tool_call_id |-> 0, name |-> ToolName("", "")]

IsAI(m) == m.type = "ai"

TransferCalls(m) == SelectSeq(m.tool_calls, LAMBDA tc : startswith_transfer(tc.name))

----------------------------------------------------------------------------
(* TransferLoopDetector (graphs/chat/utils.py) *)

\* The index is the 1-based position in the window; the code's is 0-based.
infer_source_agent(recent, i) ==
    IF i - 1 > 0 THEN "previous_agent" ELSE "unknown_agent"

TransfersOfMessage(msgs, recent, i) ==
    LET msg == recent[i]
        calls == IF IsAI(msg) /\ msg.tool_calls # <<>>
                 THEN TransferCalls(msg) ELSE <<>>
    IN [k \in 1..Len(calls) |->
          [from |-> infer_source_agent(recent, i),
           to |-> replace_transfer(calls[k].name),
           message_index |-> Len(msgs) - Len(recent) + (i - 1),
           tool_call_id |-> calls[k].id,
           timestamp_relative |-> i - 1]]

extract_recent_transfers(msgs) ==
    LET recent == IF Len(msgs) > max_history THEN Tail_n(msgs, max_history) ELSE msgs
        transfers == Flatten([i \in 1..Len(recent) |-> TransfersOfMessage(msgs, recent, i)])
    IN Tail_n(transfers, max_history)

detect_immediate_loop(cur, tgt, transfers) ==
    IF transfers = <<>> THEN FALSE
    ELSE LET most_recent == Last(transfers)
         IN most_recent.from = tgt /\ most_recent.to = cur

\* The transfers of the pair, most recent first, cut at loop_threshold.
RECURSIVE RelevantTransfers(_, _, _)
RelevantTransfers(rev, pair, acc) ==
    IF rev = <<>> \/ Len(acc) >= loop_threshold THEN acc
    ELSE LET t == Head(rev)
         IN IF t.from \in pair /\ t.to \in pair
            THEN RelevantTransfers(Tail(rev), pair, Append(acc, t))
            ELSE RelevantTransfers(Tail(rev), pair, acc)

\* mutant: the early return is off by one
Mutant_detect_ping_pong_pattern(cur, tgt, transfers) ==
    IF Len(transfers) <= loop_threshold THEN FALSE
    ELSE LET agent_pair == {cur, tgt}
             recent_relevant_transfers ==
                 RelevantTransfers(Reverse(transfers), agent_pair, <<>>)
         IN /\ Len(recent_relevant_transfers) >= loop_threshold
            /\ \A i \in 2..Len(recent_relevant_transfers) :
                 LET prev_transfer == recent_relevant_transfers[i - 1]
                     curr_transfer == recent_relevant_transfers[i]
                 IN ~(\/ prev_transfer.from # curr_transfer.to
                      \/ prev_transfer.to # curr_transfer.from)

detect_ping_pong_pattern(cur, tgt, transfers) ==
    IF Len(transfers) < loop_threshold THEN FALSE
    ELSE LET agent_pair == {cur, tgt}
             recent_relevant_transfers ==
                 RelevantTransfers(Reverse(transfers), agent_pair, <<>>)
         IN /\ Len(recent_relevant_transfers) >= loop_threshold
            /\ \A i \in 2..Len(recent_relevant_transfers) :
                 LET prev_transfer == recent_relevant_transfers[i - 1]
                     curr_transfer == recent_relevant_transfers[i]
                 IN ~(\/ prev_transfer.from # curr_transfer.to
                      \/ prev_transfer.to # curr_transfer.from)

NoLoop == [is_loop |-> FALSE, kind |-> "", a |-> "", b |-> ""]

\* reason: "Immediate loop: {a} just transferred to {b}" or
\*         "Ping-pong pattern detected between {a} and {b}"
is_transfer_loop(cur, tgt, msgs) ==
    LET transfers == extract_recent_transfers(msgs)
    IN IF detect_immediate_loop(cur, tgt, transfers)
       THEN [is_loop |-> TRUE, kind |-> "Immediate loop", a |-> tgt, b |-> cur]
       ELSE IF detect_ping_pong_pattern(cur, tgt, transfers)
       THEN [is_loop |-> TRUE, kind |-> "Ping-pong pattern", a |-> cur, b |-> tgt]
       ELSE NoLoop

detect_transfer_loop(cur, tgt, msgs) == is_transfer_loop(cur, tgt, msgs)

get_transfer_suggestion(cur, transfers) ==
    LET from_agent == IF transfers = <<>> THEN "" ELSE Last(transfers).from
    IN IF transfers # <<>> /\ cur = "Broker" /\ from_agent = "Concierge_Agent"
       THEN "Complete the property search that Concierge transferred to you"
       ELSE IF transfers # <<>> /\ cur = "Concierge_Agent" /\ from_agent = "Broker"
       THEN "Execute the logistics tasks that Broker assigned to you"
       ELSE CASE cur = "Broker" -> "Use search_properties or deep_search_properties"
              [] cur = "Concierge_Agent" -> "Use scheduling tools"
              [] cur = "Market_Analyst" -> "Use analysis tools"
              [] cur = "lead_seeker" -> "Collect property details"
              [] OTHER -> "Execute your primary function"

get_loop_prevention_guidance(cur, msgs) ==
    get_transfer_suggestion(cur, extract_recent_transfers(msgs))

----------------------------------------------------------------------------
(* Handoff tool (tools/handoffs.py) *)

\* What handoff_tool of transfer_to_<agent_name> returns in a state whose
\* current_agent is cur.
handoff_tool(agent_name, cur) ==
    IF cur = agent_name
    THEN [kind |-> "error", goto |-> None]
    ELSE [kind |-> "command", goto |-> agent_name]

\* The task_description argument of a handoff call
task_description(tc) == 5000 + tc.id

\* The messages of the agent_input the handoff tool sends to the target:
\* one user message holding the task description.
handoff_input(tc) == <<HumanMessage(task_description(tc))>>

----------------------------------------------------------------------------
(* Inputs: what the model, the tools and the validator model may answer *)

DomainTool == ToolName("", "search_properties")

\* partners= of each @guide_agent registration
partners(a) ==
    CASE a = "Broker" -> {"Market_Analyst", "Concierge_Agent", "lead_seeker"}
      [] a = "Concierge_Agent" -> {"Broker", "Market_Analyst"}
      [] a = "Market_Analyst" -> {"Broker", "Concierge_Agent"}
      [] a = "lead_seeker" -> {"Broker"}
      [] OTHER -> {}

\* Targets of transfer calls that are no handoff tool of any agent: a
\* spectator, a name that is not registered, and the name the detector
\* writes for the source of a transfer.  tool_call["name"] is what the model
\* wrote.
HallucinatedTargets == {"validator", "Unknown_Agent", "previous_agent"}

\* The transfer calls agent a may issue: the handoff tools bound to its
\* model, the transfer to itself that should_continue guards against, and
\* the names above.
TransferNames(a) ==
    {ToolName(HandoffPrefix, t) : t \in partners(a) \cup {a} \cup HallucinatedTargets}

\* The transfer calls to the partners of agent a and to a itself
PartnerTransferNames(a) == {ToolName(HandoffPrefix, t) : t \in partners(a) \cup {a}}

\* The lists of tool calls in one response: one call, or calls of two
\* different tools of which the second is a transfer; a transfer to a name
\* that is no agent comes second only after the transfer to a itself.
NameSeqs(a) ==
    {<<n>> : n \in {DomainTool} \cup TransferNames(a)}
    \cup {p \in ({DomainTool} \cup PartnerTransferNames(a)) \X PartnerTransferNames(a) :
              p[1] # p[2]}
    \cup {<<ToolName(HandoffPrefix, a), ToolName(HandoffPrefix, "previous_agent")>>}

\* kind: "tool_calls", a final "content" (with or without JSON written in
\* it), or "nothing" (neither content nor tool calls).
Responses(a) ==
    {[kind |-> "tool_calls", json |-> FALSE, names |-> ns] : ns \in NameSeqs(a)}
    \cup {[kind |-> "content", json |-> j, names |-> <<>>] : j \in BOOLEAN}
    \cup {[kind |-> "nothing", json |-> FALSE, names |-> <<>>]}

\* The validator model: a verdict, an exception, or None.
Verdicts == {"valid", "invalid", "raises", "none"}

----------------------------------------------------------------------------
(* Router: should_continue (graphs/chat/smart_system.py) *)

Route(r, cur, th, lpg, consulted, tgt) ==
    [route |-> r, current_agent |-> cur, transfer_history |-> th,
     loop_prevention_guidance |-> lpg, consulted |-> consulted, target |-> tgt]

should_continue(msgs, cur, th, lpg) ==
    IF msgs = <<>> THEN Route(END, cur, th, lpg, FALSE, None)
    ELSE LET last_message == Last(msgs) IN
    IF ~IsAI(last_message) THEN Route(END, cur, th, lpg, FALSE, None)
    ELSE IF last_message.tool_calls = <<>>
    THEN Route("validator", cur, th, lpg, FALSE, None)
    ELSE LET tcs == TransferCalls(last_message) IN
    IF tcs = <<>> THEN Route("tools", cur, th, lpg, FALSE, None)
    ELSE
      \* the loop over tool_calls returns at the first transfer_to_ call
      LET target_agent == replace_transfer(tcs[1].name) IN
      IF target_agent = cur THEN Route("tools", cur, th, lpg, FALSE, target_agent)
      ELSE LET loop == detect_transfer_loop(cur, target_agent, msgs) IN
      IF loop.is_loop
      THEN Route("tools", cur, th,
                 Append(lpg, [agent |-> cur,
                              guidance |-> get_loop_prevention_guidance(cur, msgs),
                              blocked_transfer |-> target_agent,
                              reason |-> loop]),
                 TRUE, target_agent)
      ELSE Route(target_agent, target_agent,
                 Tail_n(Append(th, [from |-> cur, to |-> target_agent,
                                    message_index |-> Len(msgs) - 1]),
                        MaxTransferHistory),
                 lpg, TRUE, target_agent)

----------------------------------------------------------------------------
(* guide_agent.async_wrapper (lib/ai/agent_decorator.py), agent nodes *)

Event(e, c, id) == [event |-> e, content |-> c, tool_call_id |-> id, feedback |-> ""]

ToolEndEvents(msgs) ==
    IF msgs # <<>> /\ Last(msgs).type = "tool"
    THEN <<Event("tool_end", Last(msgs).content, Last(msgs).tool_call_id)>>
    ELSE <<>>

CallId(step, k) == step * 10 + k

CallsOf(names, step) ==
    [k \in 1..Len(names) |-> [name |-> names[k], id |-> CallId(step, k)]]

\* mutant: the first message is trimmed like the others
Mutant_trim_messages(msgs) ==
    IF Len(msgs) > MAX_MESSAGES THEN Tail_n(msgs, MAX_MESSAGES) ELSE msgs

trim_messages(msgs) ==
    IF Len(msgs) > MAX_MESSAGES
    THEN <<msgs[1]>> \o Tail_n(msgs, MAX_MESSAGES - 1)
    ELSE msgs

\* The events the wrapper writes for a response, after the tool_end event.
ResponseEvents(r, c, calls, rc) ==
    CASE r.kind = "tool_calls" ->
           [k \in 1..Len(calls) |-> Event("tool_start", 0, calls[k].id)]
      [] r.kind = "content" ->
           IF rc = NoRetry /\ ~r.json THEN <<Event("llm_message", c, 0)>>
           ELSE IF rc # NoRetry THEN <<>>
           ELSE <<Event("no_content", c, 0)>>
      [] OTHER -> <<>>

\* The message log the wrapper returns.
ResponseMessages(msgs, r, c, calls, a) ==
    trim_messages(
        CASE r.kind = "tool_calls" -> Append(msgs, AIMessage(0, FALSE, calls, a))
          [] r.kind = "content" -> Append(msgs, AIMessage(c, r.json, <<>>, a))
          [] OTHER -> msgs)

\* mutant: the wrapper of a spectator writes its own name
Mutant_ReturnedCurrentAgent(agent_name, spectator_mode, cur, has_key, value) ==
    IF has_key THEN value ELSE agent_name

\* current_agent after the wrapper of agent_name returned: the key of the
\* dict the function returned when it has one, the name of the agent when
\* it is no spectator, else the value the state had.
ReturnedCurrentAgent(agent_name, spectator_mode, cur, has_key, value) ==
    IF has_key THEN value
    ELSE IF ~spectator_mode THEN agent_name
    ELSE cur

\* retry_context in the returned state: cleared when it was injected.
RetryContextAfterAgent(rc) == IF rc # NoRetry THEN NoRetry ELSE rc

\* AIHelpingMessages.retry_message
retry_message(rc) == SystemMessage(RetryInstruction)

\* The messages the wrapper hands to the function of the agent.
messages_for_llm(msgs, rc) ==
    IF rc # NoRetry THEN Append(msgs, retry_message(rc)) ELSE msgs

\* The agents that are compiled into a graph of their own
IsolatedAgents ==
    {"BrokerIsolated", "LeadSeekerIsolated", "MarketAnalystIsolated", "ConciergeIsolated"}

\* What the decorated function gives back to the wrapper: the "response" of
\* the model (the agents of the shared graph), the "state" it was handed
\* (generate_suggestions_step), a "dict" without messages (the validator).
\* The functions of the isolated agents take (state, writer, model): the
\* wrapper's call func(enhanced_state, config, writer=..., model=...) gives
\* writer twice, and the call "raises".
FuncKind(name) ==
    CASE name \in Agents -> "response"
      [] name = "suggestion_agent" -> "state"
      [] name \in IsolatedAgents -> "raises"
      [] OTHER -> "dict"

NoResponse == [kind |-> "nothing", json |-> FALSE, names |-> <<>>]

\* async_wrapper of agent `name` on a state with the log msgs, retry_context
\* rc and current_agent cur, when the model answers r (content c, tool
\* calls `calls`).  input is what the function received; the other fields
\* are the returned state and the events written.
async_wrapper(name, msgs, rc, cur, r, c, calls) ==
    CASE FuncKind(name) = "response" ->
           [raised |-> FALSE,
            input |-> messages_for_llm(msgs, rc),
            messages |-> ResponseMessages(msgs, r, c, calls, name),
            retry_context |-> RetryContextAfterAgent(rc),
            current_agent |-> ReturnedCurrentAgent(name, FALSE, cur, FALSE, None),
            events |-> ToolEndEvents(msgs) \o ResponseEvents(r, c, calls, rc)]
      [] FuncKind(name) = "state" ->
           [raised |-> FALSE,
            input |-> messages_for_llm(msgs, rc),
            messages |-> trim_messages(messages_for_llm(msgs, rc)),
            retry_context |-> rc,
            current_agent |-> ReturnedCurrentAgent(name, is_spectator_agent(name),
                                                   cur, TRUE, cur),
            events |-> ToolEndEvents(msgs)]
      [] OTHER ->
           [raised |-> TRUE,
            input |-> messages_for_llm(msgs, rc),
            messages |-> msgs,
            retry_context |-> rc,
            current_agent |-> IF is_spectator_agent(name) THEN cur ELSE name,
            events |-> ToolEndEvents(msgs)]

----------------------------------------------------------------------------
(* validate_agent_response (graphs/chat/steps/validation.py) *)

MaxIndex(S) == IF S = {} THEN 0 ELSE CHOOSE i \in S : \A j \in S : j <= i

\* 1-based index of the final AI message to validate, 0 when there is none:
\* the last AI message without tool calls, when it lies after the last
\* user message.
LastAIMessageIndex(msgs) ==
    LET ai == MaxIndex({i \in 1..Len(msgs) : IsAI(msgs[i]) /\ msgs[i].tool_calls = <<>>})
        user == MaxIndex({i \in 1..Len(msgs) : msgs[i].type = "human"})
    IN IF ai # 0 /\ user # 0 /\ ai > user THEN ai ELSE 0

LastUserMessageIndex(msgs) ==
    MaxIndex({i \in 1..Len(msgs) : msgs[i].type = "human"})

\* Pre-check: a transfer call in the last 5 messages that the detector
\* calls a loop.
TransferLoopPrecheck(msgs, cur) ==
    \E i \in (IF Len(msgs) > 5 THEN Len(msgs) - 4 ELSE 1)..Len(msgs) :
        /\ IsAI(msgs[i])
        /\ \E k \in 1..Len(msgs[i].tool_calls) :
             /\ startswith_transfer(msgs[i].tool_calls[k].name)
             /\ detect_transfer_loop(cur, replace_transfer(msgs[i].tool_calls[k].name),
                                     msgs).is_loop

verify_json_existence(m) == m.json

\* Pre-check: an AI message among the last 3 with more than one transfer call.
SimultaneousTransferPrecheck(msgs) ==
    \E i \in (IF Len(msgs) > 3 THEN Len(msgs) - 2 ELSE 1)..Len(msgs) :
        IsAI(msgs[i]) /\ Len(TransferCalls(msgs[i])) > 1

Feedback(kind, mentions) == [kind |-> kind, mentions_transfer |-> mentions]

InitialRetryCount == 0

NewRetryContext(failed, fb) ==
    [failed_attempt |-> failed, feedback |-> fb,
     retry_count |-> InitialRetryCount, transfer_guidance |-> None]

\* What the step returns: whether the returned dict has the key
\* retry_context and its value, the validation_failed events written, and
\* whether the validator model was invoked.
Returned(has, rc, ev, called, pre) ==
    [has_key |-> has, retry_context |-> rc, events |-> ev, called |-> called,
     precheck |-> pre]

Rejection(msgs, fb, called, pre) ==
    Returned(TRUE, NewRetryContext(msgs[LastAIMessageIndex(msgs)].content, fb),
             <<[Event("validation_failed", 0, 0) EXCEPT !.feedback = fb.kind]>>,
             called, pre)

\* mutant: an exception of the validator model rejects the response
Mutant_JudgedByModel(msgs, verdict) ==
    CASE verdict = "none" -> Returned(TRUE, NoRetry, <<>>, TRUE, "")
      [] verdict = "valid" -> Returned(TRUE, NoRetry, <<>>, TRUE, "")
      [] OTHER -> Rejection(msgs, Feedback("llm", FALSE), TRUE, "")

\* The external judgment and what the step makes of it: an exception or a
\* None result is treated as valid.
JudgedByModel(msgs, verdict) ==
    CASE verdict = "raises" -> Returned(TRUE, NoRetry, <<>>, TRUE, "")
      [] verdict = "none" -> Returned(TRUE, NoRetry, <<>>, TRUE, "")
      [] verdict = "valid" -> Returned(TRUE, NoRetry, <<>>, TRUE, "")
      [] OTHER -> Rejection(msgs, Feedback("llm", FALSE), TRUE, "")

\* mutant: the model is asked before the transfer calls are counted
Mutant_validate_agent_response(msgs, cur, verdict) ==
    IF LastAIMessageIndex(msgs) = 0 \/ LastUserMessageIndex(msgs) = 0
    THEN Returned(FALSE, NoRetry, <<>>, FALSE, "nothing_to_validate")
    ELSE IF TransferLoopPrecheck(msgs, cur)
    THEN Rejection(msgs, Feedback("transfer_loop", TRUE), FALSE, "transfer_loop")
    ELSE IF verify_json_existence(msgs[LastAIMessageIndex(msgs)])
    THEN Rejection(msgs, Feedback("direct_json", FALSE), FALSE, "direct_json")
    ELSE JudgedByModel(msgs, verdict)

validate_agent_response(msgs, cur, verdict) ==
    IF LastAIMessageIndex(msgs) = 0 \/ LastUserMessageIndex(msgs) = 0
    THEN Returned(FALSE, NoRetry, <<>>, FALSE, "nothing_to_validate")
    ELSE IF TransferLoopPrecheck(msgs, cur)
    THEN Rejection(msgs, Feedback("transfer_loop", TRUE), FALSE, "transfer_loop")
    ELSE IF verify_json_existence(msgs[LastAIMessageIndex(msgs)])
    THEN Rejection(msgs, Feedback("direct_json", FALSE), FALSE, "direct_json")
    ELSE IF SimultaneousTransferPrecheck(msgs)
    THEN Rejection(msgs, Feedback("simultaneous_transfers", TRUE), FALSE,
                   "simultaneous_transfers")
    ELSE JudgedByModel(msgs, verdict)

\* The wrapper around a spectator step that returns a dict without
\* "messages": retry_context is cleared when it was injected, then the keys
\* of the returned dict are copied.
RetryContextAfterSpectator(rc, ret) ==
    IF ret.has_key THEN ret.retry_context
    ELSE IF rc # NoRetry THEN NoRetry ELSE rc

----------------------------------------------------------------------------
(* Retry controller (graphs/chat/smart_system.py) *)

\* mutant: the bound is passed only beyond max_retries
Mutant_decide_after_validation(rc) ==
    IF rc # NoRetry
    THEN IF rc.retry_count > max_retries
         THEN [route |-> "suggestion_agent", retry_context |-> NoRetry, exhausted |-> TRUE]
         ELSE [route |-> "handle_failure", retry_context |-> rc, exhausted |-> FALSE]
    ELSE [route |-> "suggestion_agent", retry_context |-> rc, exhausted |-> FALSE]

decide_after_validation(rc) ==
    IF rc # NoRetry
    THEN IF rc.retry_count >= max_retries
         THEN [route |-> "suggestion_agent", retry_context |-> NoRetry, exhausted |-> TRUE]
         ELSE [route |-> "handle_failure", retry_context |-> rc, exhausted |-> FALSE]
    ELSE [route |-> "suggestion_agent", retry_context |-> rc, exhausted |-> FALSE]

\* mutant: the count jumps past the bound
Mutant_IncrementedRetryCount(n) == n + max_retries + 1

IncrementedRetryCount(n) == n + 1

\* mutant: the rejected message stays in the log
Mutant_PopInvalidMessage(msgs) == msgs

\* messages.pop() when the last message is an AI message
PopInvalidMessage(msgs) ==
    IF msgs # <<>> /\ IsAI(Last(msgs))
    THEN SubSeq(msgs, 1, Len(msgs) - 1) ELSE msgs

handle_validation_failure(msgs, rc, cur) ==
    IF rc = NoRetry THEN [messages |-> msgs, retry_context |-> rc]
    ELSE LET popped == PopInvalidMessage(msgs)
             updated == [rc EXCEPT !.retry_count = IncrementedRetryCount(rc.retry_count)]
         IN [messages |-> popped,
             retry_context |->
                IF rc.feedback.mentions_transfer
                THEN [updated EXCEPT !.transfer_guidance =
                                        get_loop_prevention_guidance(cur, popped)]
                ELSE updated]

\* mutant: the retry goes to the default agent
Mutant_route_after_failure(cur) == "Broker"

route_after_failure(cur) == cur

----------------------------------------------------------------------------
(* The graph: one action per node, with the conditional edge after it *)

\* The graph run aborted: a conditional edge returned a name that is not in
\* its path map.
ERROR == "__error__"

\* The path map of the conditional edge after node n.
PathMap(n) ==
    CASE n = "initialize_tracker" -> Agents
      [] n \in Agents -> ({"tools", "validator", END} \cup Agents) \ {n}
      [] n = "tools" -> Agents
      [] n = "validator" -> {"handle_failure", "suggestion_agent"}
      [] n = "handle_failure" -> Agents
      [] OTHER -> {}

\* The node the graph runs after node n when the edge function returned r.
Dispatch(n, r) == IF r \in PathMap(n) THEN r ELSE ERROR

NoHandoff == [from |-> None, to |-> None]

NoRoute == Route(None, None, <<>>, <<>>, FALSE, None)

NoJudgement ==
    [verdict |-> None, ret |-> Returned(FALSE, NoRetry, <<>>, FALSE, ""),
     candidate |-> 0, exhausted |-> FALSE, route |-> None,
     messages_before |-> <<>>]

UserContent == 1000

GraphInit ==
    /\ node = "load_memory"
    /\ messages = <<HumanMessage(UserContent)>>
    /\ current_agent = None
    /\ retry_context = NoRetry
    /\ transfer_history = <<>>
    /\ loop_prevention_guidance = <<>>
    /\ events = <<>>
    /\ steps = 0
    /\ multi = 0
    /\ last_route = [decision |-> NoRoute, agent |-> None, transfers |-> 0, step |-> 0,
                     history_before |-> <<>>, previous_handoff |-> NoHandoff,
                     detected |-> NoLoop, self_transfer |-> FALSE]
    /\ reexec = 0
    /\ rejected = {}
    /\ judged = NoJudgement

DtIdle ==
    /\ dt_phase = "off"
    /\ dt_current = None
    /\ dt_target = None
    /\ dt_transfers = <<>>
    /\ dt_result = [immediate |-> FALSE, ping_pong |-> FALSE, loop |-> NoLoop]

WrIdle ==
    /\ wr_phase = "off"
    /\ wr_in = [agent |-> None]
    /\ wr_out = [raised |-> FALSE]

NoSwitch == [called |-> FALSE]

SvIdle ==
    /\ sv_pc = <<>>
    /\ sv_values = <<>>
    /\ sv_checkpoint = <<>>
    /\ sv_events = <<>>
    /\ sv_auth = TRUE
    /\ sv_final = <<>>
    /\ sv_bg = <<>>
    /\ sv_system_type = "enhanced_shared"
    /\ sv_agent_system = None
    /\ sv_switch = NoSwitch

RtIdle ==
    /\ rt_phase = "off"
    /\ rt_in = [retry_context |-> NoRetry]
    /\ rt_out = [op |-> None]

Init == GraphInit /\ DtIdle /\ WrIdle /\ SvIdle /\ RtIdle

\* load_memory, initialize_tracker and route_to_current_agent
StartTurn ==
    /\ node = "load_memory"
    /\ current_agent' = IF current_agent = None THEN "Broker" ELSE current_agent
    /\ node' = Dispatch("initialize_tracker", current_agent')
    /\ UNCHANGED <<messages, retry_context, transfer_history,
                   loop_prevention_guidance, events, steps, multi, last_route,
                   reexec, rejected, judged>>
    /\ UNCHANGED dtVars
    /\ UNCHANGED wrVars
    /\ UNCHANGED svVars
    /\ UNCHANGED rtVars

\* The most recent handoff of the conversation: the last transfer the Router
\* accepted.
PreviousHandoff(th) ==
    IF th = <<>> THEN NoHandoff
    ELSE [from |-> Last(th).from, to |-> Last(th).to]

\* An agent node (Broker, lead_seeker, Market_Analyst, Concierge_Agent):
\* the wrapper, the model's response, then should_continue.
AgentStep ==
    /\ node \in Agents
    /\ steps < MaxSteps
    /\ \E r \in Responses(node) :
         /\ Len(r.names) > 1 => multi < MaxMulti
         /\ multi' = IF Len(r.names) > 1 THEN multi + 1 ELSE multi
         /\ LET a == node
                c == steps + 1
                calls == CallsOf(r.names, steps + 1)
                w == async_wrapper(a, messages, retry_context, current_agent, r, c, calls)
                msgs == w.messages
                d == should_continue(msgs, w.current_agent,
                                     transfer_history, loop_prevention_guidance)
            IN /\ messages' = msgs
               /\ events' = events \o w.events
               /\ retry_context' = w.retry_context
               /\ current_agent' = d.current_agent
               /\ transfer_history' = d.transfer_history
               /\ loop_prevention_guidance' = d.loop_prevention_guidance
               /\ node' = Dispatch(a, d.route)
               /\ last_route' = [decision |-> d, agent |-> a,
                                 transfers |-> IF r.kind = "tool_calls"
                                               THEN Len(TransferCalls(Last(msgs))) ELSE 0,
                                 step |-> steps + 1,
                                 history_before |-> transfer_history,
                                 previous_handoff |-> PreviousHandoff(transfer_history),
                                 detected |-> IF d.target # None
                                              THEN detect_transfer_loop(a, d.target, msgs)
                                              ELSE NoLoop,
                                 self_transfer |->
                                    \E k \in 1..Len(calls) :
                                       calls[k].name = ToolName(HandoffPrefix, a)]
    /\ steps' = steps + 1
    /\ reexec' = IF retry_context # NoRetry THEN reexec + 1 ELSE reexec
    /\ UNCHANGED <<rejected, judged>>
    /\ UNCHANGED dtVars
    /\ UNCHANGED wrVars
    /\ UNCHANGED svVars
    /\ UNCHANGED rtVars

\* What the tool node answers to one call.  The handoff tools are not among
\* the tools of the node.
ToolResult(tc) ==
    IF startswith_transfer(tc.name)
    THEN ToolMessage(2000, tc.id, tc.name)
    ELSE ToolMessage(3000, tc.id, tc.name)

\* The tool node and route_after_tools
ToolsStep ==
    /\ node = "tools"
    /\ LET calls == Last(messages).tool_calls
       IN messages' = messages \o [k \in 1..Len(calls) |-> ToolResult(calls[k])]
    /\ node' = Dispatch("tools", current_agent)
    /\ UNCHANGED <<current_agent, retry_context, transfer_history,
                   loop_prevention_guidance, events, steps, multi, last_route,
                   reexec, rejected, judged>>
    /\ UNCHANGED dtVars
    /\ UNCHANGED wrVars
    /\ UNCHANGED svVars
    /\ UNCHANGED rtVars

\* The validator node and decide_after_validation
ValidatorStep ==
    /\ node = "validator"
    /\ \E v \in Verdicts :
         LET ret == validate_agent_response(messages, current_agent, v)
             rc == RetryContextAfterSpectator(retry_context, ret)
             d == decide_after_validation(rc)
             cand == IF LastAIMessageIndex(messages) = 0 THEN 0
                     ELSE messages[LastAIMessageIndex(messages)].content
         IN /\ events' = events \o ToolEndEvents(messages) \o ret.events
            /\ messages' = trim_messages(messages)
            /\ retry_context' = d.retry_context
            /\ node' = Dispatch("validator", d.route)
            /\ rejected' = IF ret.has_key /\ ret.retry_context # NoRetry
                           THEN rejected \cup {cand} ELSE rejected
            /\ judged' = [verdict |-> v, ret |-> ret, candidate |-> cand,
                          exhausted |-> d.exhausted, route |-> d.route,
                          messages_before |-> messages]
    /\ current_agent' = ReturnedCurrentAgent("validator", TRUE, current_agent, FALSE, None)
    /\ UNCHANGED <<transfer_history, loop_prevention_guidance,
                   steps, multi, last_route, reexec>>
    /\ UNCHANGED dtVars
    /\ UNCHANGED wrVars
    /\ UNCHANGED svVars
    /\ UNCHANGED rtVars

\* handle_failure and route_after_failure
HandleFailureStep ==
    /\ node = "handle_failure"
    /\ LET h == handle_validation_failure(messages, retry_context, current_agent)
       IN /\ messages' = h.messages
          /\ retry_context' = h.retry_context
    /\ node' = Dispatch("handle_failure", route_after_failure(current_agent))
    /\ UNCHANGED <<current_agent, transfer_history, loop_prevention_guidance,
                   events, steps, multi, last_route, reexec, rejected, judged>>
    /\ UNCHANGED dtVars
    /\ UNCHANGED wrVars
    /\ UNCHANGED svVars
    /\ UNCHANGED rtVars

\* suggestion_agent, then END.  generate_suggestions_step returns the state
\* it was given: the wrapper copies its keys, current_agent and retry_context
\* among them.
SuggestionStep ==
    /\ node = "suggestion_agent"
    /\ LET w == async_wrapper("suggestion_agent", messages, retry_context,
                              current_agent, NoResponse, 0, <<>>)
       IN /\ events' = events \o w.events
          /\ messages' = w.messages
          /\ retry_context' = w.retry_context
          /\ current_agent' = w.current_agent
    /\ node' = END
    /\ UNCHANGED <<transfer_history, loop_prevention_guidance,
                   steps, multi, last_route, reexec, rejected, judged>>
    /\ UNCHANGED dtVars
    /\ UNCHANGED wrVars
    /\ UNCHANGED svVars
    /\ UNCHANGED rtVars

Next ==
    \/ StartTurn
    \/ AgentStep
    \/ ToolsStep
    \/ ValidatorStep
    \/ HandleFailureStep
    \/ SuggestionStep

Spec == Init /\ [][Next]_vars

----------------------------------------------------------------------------
(* The loop detector applied to windows of transfer records *)

DtAgents == {"Broker", "Concierge_Agent", "Market_Analyst"}

DtRecords == {r \in [from : DtAgents, to : DtAgents] : r.from # r.to}

DtInit ==
    /\ dt_phase = "input"
    /\ dt_current \in DtAgents
    /\ dt_target \in DtAgents
    /\ dt_transfers = <<>>
    /\ dt_result = [immediate |-> FALSE, ping_pong |-> FALSE, loop |-> NoLoop]

InitDetector == GraphInit /\ DtInit /\ WrIdle /\ SvIdle /\ RtIdle

\* The message log of a conversation whose accepted handoffs are the
\* records ts, when cur has just answered with the call transfer_to_tgt: the
\* question, one agent message per handoff, and the attempted handoff.  An
\* accepted handoff runs the target next; no tool message is appended.
DtLog(ts, cur, tgt) ==
    <<HumanMessage(UserContent)>>
    \o [i \in 1..Len(ts) |->
          AIMessage(0, FALSE, CallsOf(<<ToolName(HandoffPrefix, ts[i].to)>>, i), ts[i].from)]
    \o <<AIMessage(0, FALSE, CallsOf(<<ToolName(HandoffPrefix, tgt)>>, Len(ts) + 1), cur)>>

DtAppend ==
    /\ dt_phase = "input"
    /\ Len(dt_transfers) < MaxWindow
    /\ \E r \in DtRecords : dt_transfers' = Append(dt_transfers, r)
    /\ UNCHANGED <<dt_phase, dt_current, dt_target, dt_result>>
    /\ UNCHANGED graphVars
    /\ UNCHANGED wrVars
    /\ UNCHANGED svVars
    /\ UNCHANGED rtVars

DtDetect ==
    /\ dt_phase = "input"
    /\ dt_result' = [immediate |-> detect_immediate_loop(dt_current, dt_target, dt_transfers),
                     ping_pong |-> detect_ping_pong_pattern(dt_current, dt_target, dt_transfers),
                     loop |-> is_transfer_loop(dt_current, dt_target,
                                               DtLog(dt_transfers, dt_current, dt_target))]
    /\ dt_phase' = "done"
    /\ UNCHANGED <<dt_current, dt_target, dt_transfers>>
    /\ UNCHANGED graphVars
    /\ UNCHANGED wrVars
    /\ UNCHANGED svVars
    /\ UNCHANGED rtVars

NextDetector == DtAppend \/ DtDetect

SpecDetector == InitDetector /\ [][NextDetector]_vars

----------------------------------------------------------------------------
(* The wrapper of guide_agent applied to one state and one response *)

\* A log of n messages: questions and accepted answers in turn.
WrLog(n) ==
    [i \in 1..n |-> IF i % 2 = 1 THEN HumanMessage(UserContent + i)
                    ELSE AIMessage(100 + i, FALSE, <<>>, "Broker")]

\* The retry context an agent finds after handle_validation_failure.
PendingRetry ==
    [NewRetryContext(5, Feedback("llm", FALSE))
       EXCEPT !.retry_count = IncrementedRetryCount(InitialRetryCount)]

WrAgents == Agents \cup {"suggestion_agent"} \cup IsolatedAgents

WrResponses(a) == IF a \in Agents THEN Responses(a) ELSE {NoResponse}

\* The lengths of the logs: short ones, and those around MAX_MESSAGES.
WrLengths == (1..3) \cup ((MAX_MESSAGES - 3)..MaxLog)

\* A retry is pending only on a log that ends with a question: the rejected
\* answer was popped.
WrRetryContexts(n) == IF n % 2 = 1 THEN {NoRetry, PendingRetry} ELSE {NoRetry}

WrInit ==
    /\ wr_phase = "input"
    /\ \E a \in WrAgents :
         \E n \in WrLengths :
           \E rc \in WrRetryContexts(n) :
             \E r \in WrResponses(a) :
               wr_in = [agent |-> a, messages |-> WrLog(n), retry_context |-> rc,
                        current_agent |-> "Broker", response |-> r]
    /\ wr_out = [raised |-> FALSE]

InitWrapper == GraphInit /\ DtIdle /\ WrInit /\ SvIdle /\ RtIdle

WrCall ==
    /\ wr_phase = "input"
    /\ wr_out' = async_wrapper(wr_in.agent, wr_in.messages, wr_in.retry_context,
                               wr_in.current_agent, wr_in.response, 1,
                               CallsOf(wr_in.response.names, 1))
    /\ wr_phase' = "done"
    /\ UNCHANGED wr_in
    /\ UNCHANGED graphVars
    /\ UNCHANGED dtVars
    /\ UNCHANGED svVars
    /\ UNCHANGED rtVars

NextWrapper == WrCall

SpecWrapper == InitWrapper /\ [][NextWrapper]_vars

----------------------------------------------------------------------------
(* ChatService (api/v1/chat/services.py): the agent system of the service *)

SystemTypes == {"legacy", "enhanced_shared", "multi_agent"}

\* The system a type stands for; chat_app, the legacy system, for a type
\* that is not known.
SystemOf(type) == IF type \in SystemTypes THEN type ELSE "legacy"

\* _get_agent_system on a service with system_type type and _agent_system
\* system, when the creation of the system fails or not: the exception is
\* caught inside and the service falls back to the legacy system.
get_agent_system(type, system, fails) ==
    IF system # None THEN [system_type |-> type, agent_system |-> system]
    ELSE IF fails /\ type \in {"enhanced_shared", "multi_agent"}
    THEN [system_type |-> "legacy", agent_system |-> "legacy"]
    ELSE [system_type |-> type, agent_system |-> SystemOf(type)]

\* switch_system(new): _get_agent_system raises nothing, the except branch
\* that reverts to the old type is never taken.
switch_system(type, system, new, fails) ==
    IF new = type THEN [system_type |-> type, agent_system |-> system]
    ELSE get_agent_system(new, None, fails)

get_current_system_type(type) == type

----------------------------------------------------------------------------
(* ChatService.stream_chat: invocations on one thread (api/v1/chat/services.py) *)

\* The requests GET /stream on the thread; each is a coroutine of the one
\* chat_service, and they take turns at every await.
Invocations == 1..MaxInvocations

\* content of the prompt of invocation i
Prompt(i) == 7000 + i

\* content of the message that step k of the run of invocation i appends
StepMessage(i, k) == 100 * i + k

\* content of message n of the log persisted before the invocations
PriorMessage(n) == 8000 + n

\* message_count >= 30 for a user that is not authenticated
MessageLimit == 30

\* mutant: the limit is reached one message later
Mutant_LimitReached(message_count) == message_count > MessageLimit

LimitReached(message_count) == message_count >= MessageLimit

SvEvent(e, nm, c) == [event |-> e, name |-> nm, content |-> c]

\* The two events of the message limit
LoginEvents ==
    <<SvEvent("llm_message", "", "Limite de mensagens atingido"),
      SvEvent("tool_end", "request_login", 0)>>

\* mutant: the exception of the run is raised again
Mutant_ExceptSystemError(evs) == [events |-> evs, escaped |-> TRUE]

\* except Exception as system_error: one system_error event is yielded
ExceptSystemError(evs) ==
    [events |-> Append(evs, SvEvent("system_error", "", 0)), escaped |-> FALSE]

\* add_messages of MessagesState: the messages of right that left does not
\* hold are appended.
add_messages(left, right) ==
    left \o SelectSeq(right, LAMBDA m : \A k \in 1..Len(left) : left[k] # m)

\* The lengths of the persisted log before the invocations
SvPriorLengths == {0, MessageLimit - 1, MessageLimit}

\* The background task of an invocation has not run.
NoBackground == [ran |-> FALSE, messages |-> <<>>]

SvStart == [at |-> "start", k |-> 0, seen |-> 0, raised |-> FALSE, escaped |-> FALSE]

SvInit ==
    /\ sv_pc = [i \in Invocations |-> SvStart]
    /\ sv_values = [i \in Invocations |-> <<>>]
    /\ \E n \in SvPriorLengths : sv_checkpoint = [k \in 1..n |-> PriorMessage(k)]
    /\ sv_events = [i \in Invocations |-> <<>>]
    /\ sv_auth \in BOOLEAN
    /\ sv_final = [i \in Invocations |-> <<>>]
    /\ sv_bg = [i \in Invocations |-> NoBackground]
    /\ sv_system_type = "enhanced_shared"
    /\ sv_agent_system \in {None, "enhanced_shared"}
    /\ sv_switch = NoSwitch

InitService == GraphInit /\ DtIdle /\ WrIdle /\ SvInit /\ RtIdle

\* agent_system = await self._get_agent_system(); for a user that is not
\* authenticated, state = await saver.aget(...) and the message limit.
SvCheckLimit(i) ==
    /\ sv_pc[i].at = "start"
    /\ \E fails \in BOOLEAN :
         LET g == get_agent_system(sv_system_type, sv_agent_system, fails)
         IN /\ sv_system_type' = g.system_type
            /\ sv_agent_system' = g.agent_system
    /\ IF ~sv_auth /\ LimitReached(Len(sv_checkpoint))
       THEN /\ sv_events' = [sv_events EXCEPT ![i] = LoginEvents]
            /\ sv_pc' = [sv_pc EXCEPT ![i].at = "returned", ![i].seen = Len(sv_checkpoint)]
       ELSE /\ sv_pc' = [sv_pc EXCEPT ![i].at = "checked", ![i].seen = Len(sv_checkpoint)]
            /\ UNCHANGED sv_events
    /\ UNCHANGED <<sv_values, sv_checkpoint, sv_auth, sv_final, sv_bg, sv_switch>>

\* existing_state = await saver.aget(...); inputs = existing messages and
\* the prompt
SvReadCheckpoint(i) ==
    /\ sv_pc[i].at = "checked"
    /\ sv_values' = [sv_values EXCEPT ![i] = Append(sv_checkpoint, Prompt(i))]
    /\ sv_pc' = [sv_pc EXCEPT ![i].at = "inputs"]
    /\ UNCHANGED <<sv_checkpoint, sv_events, sv_auth, sv_final, sv_bg,
                   sv_system_type, sv_agent_system, sv_switch>>

\* agent_system.astream(inputs, config): the run loads the thread, merges
\* the inputs into it and persists it.
SvStartRun(i) ==
    /\ sv_pc[i].at = "inputs"
    /\ LET merged == add_messages(sv_checkpoint, sv_values[i])
       IN /\ sv_values' = [sv_values EXCEPT ![i] = merged]
          /\ sv_checkpoint' = merged
    /\ sv_pc' = [sv_pc EXCEPT ![i].at = "running"]
    /\ UNCHANGED <<sv_events, sv_auth, sv_final, sv_bg,
                   sv_system_type, sv_agent_system, sv_switch>>

\* One step of the graph in the run of invocation i: the node's message is
\* added to the values of the run, which are persisted, and its event is
\* yielded.
SvRunStep(i) ==
    /\ sv_pc[i].at = "running"
    /\ sv_pc[i].k < MaxRunSteps
    /\ LET stepped == Append(sv_values[i], StepMessage(i, sv_pc[i].k + 1))
       IN /\ sv_values' = [sv_values EXCEPT ![i] = stepped]
          /\ sv_checkpoint' = stepped
    /\ sv_events' = [sv_events EXCEPT ![i] =
                        Append(@, SvEvent("llm_message", "", StepMessage(i, sv_pc[i].k + 1)))]
    /\ sv_pc' = [sv_pc EXCEPT ![i].k = sv_pc[i].k + 1]
    /\ UNCHANGED <<sv_auth, sv_final, sv_bg, sv_system_type, sv_agent_system, sv_switch>>

\* After the run: the final state is read for the log, and the background
\* memory task is scheduled when the system is the enhanced one.
AfterRun(i) == IF sv_system_type = "enhanced_shared" THEN "scheduled" ELSE "done"

\* The run has ended: the generator is exhausted.
SvFinish(i) ==
    /\ sv_pc[i].at = "running"
    /\ sv_pc[i].k > 0
    /\ sv_pc' = [sv_pc EXCEPT ![i].at = AfterRun(i)]
    /\ sv_final' = [sv_final EXCEPT ![i] = sv_checkpoint]
    /\ UNCHANGED <<sv_values, sv_checkpoint, sv_events, sv_auth, sv_bg,
                   sv_system_type, sv_agent_system, sv_switch>>

\* A node, a tool, a model call or an edge of the run raises: astream raises
\* into stream_chat.
SvRunRaises(i) ==
    /\ sv_pc[i].at = "running"
    /\ LET h == ExceptSystemError(sv_events[i])
       IN /\ sv_events' = [sv_events EXCEPT ![i] = h.events]
          /\ sv_pc' = [sv_pc EXCEPT ![i].at = IF h.escaped THEN "raised" ELSE AfterRun(i),
                                    ![i].raised = TRUE,
                                    ![i].escaped = h.escaped]
    /\ sv_final' = [sv_final EXCEPT ![i] = sv_checkpoint]
    /\ UNCHANGED <<sv_values, sv_checkpoint, sv_auth, sv_bg,
                   sv_system_type, sv_agent_system, sv_switch>>

\* The messages the background task hands to the memory processing: of the
\* last 6 messages the user messages and the final agent messages, and of
\* those the last 4.  (The logs of this section hold no other messages.)
background_messages(state_messages) == Tail_n(Tail_n(state_messages, 6), 4)

\* _handle_background_memory_processing: latest_state = await
\* bg_saver.aget(...) when the task runs.
SvBackground(i) ==
    /\ sv_pc[i].at = "scheduled"
    /\ sv_bg' = [sv_bg EXCEPT ![i] = [ran |-> TRUE,
                                       messages |-> background_messages(sv_checkpoint)]]
    /\ sv_pc' = [sv_pc EXCEPT ![i].at = "done"]
    /\ UNCHANGED <<sv_values, sv_checkpoint, sv_events, sv_auth, sv_final,
                   sv_system_type, sv_agent_system, sv_switch>>

NextService ==
    /\ \E i \in Invocations :
         \/ SvCheckLimit(i)
         \/ SvReadCheckpoint(i)
         \/ SvStartRun(i)
         \/ SvRunStep(i)
         \/ SvFinish(i)
         \/ SvRunRaises(i)
         \/ SvBackground(i)
    /\ UNCHANGED graphVars
    /\ UNCHANGED dtVars
    /\ UNCHANGED wrVars
    /\ UNCHANGED rtVars

SpecService == InitService /\ [][NextService]_vars

----------------------------------------------------------------------------
(* stream_chat: the requests of a thread one after the other *)

\* No invocation other than i is between its first await and the end of its
\* run, and the requests before i have arrived.
SvOthersIdle(i) ==
    /\ \A j \in Invocations \ {i} :
          sv_pc[j].at \in {"start", "returned", "scheduled", "done", "raised"}
    /\ \A j \in Invocations : j < i => sv_pc[j].at # "start"

\* The turns follow each other; a background task runs at any time after
\* its turn.
NextTurns ==
    /\ \E i \in Invocations :
         \/ SvOthersIdle(i) /\ SvCheckLimit(i)
         \/ SvReadCheckpoint(i)
         \/ SvStartRun(i)
         \/ SvRunStep(i)
         \/ SvFinish(i)
         \/ SvRunRaises(i)
         \/ SvBackground(i)
    /\ UNCHANGED graphVars
    /\ UNCHANGED dtVars
    /\ UNCHANGED wrVars
    /\ UNCHANGED rtVars

SpecTurns == InitService /\ [][NextTurns]_vars

----------------------------------------------------------------------------
(* ChatService.switch_system: calls on one service *)

\* The arguments of switch_system: the three systems and a name that is none.
SwitchTypes == SystemTypes \cup {"unknown_type"}

\* The creation of a system can fail for the two systems that are built;
\* the legacy system is the module's chat_app.
CanFail(type) == type \in {"enhanced_shared", "multi_agent"}

SwInit ==
    /\ sv_pc = <<>>
    /\ sv_values = <<>>
    /\ sv_checkpoint = <<>>
    /\ sv_events = <<>>
    /\ sv_auth = TRUE
    /\ sv_final = <<>>
    /\ sv_bg = <<>>
    /\ sv_system_type \in SystemTypes
    /\ sv_agent_system = None
    /\ sv_switch = NoSwitch

InitSwitch == GraphInit /\ DtIdle /\ WrIdle /\ SwInit /\ RtIdle

SwCalls == IF sv_switch.called THEN sv_switch.n ELSE 0

\* await chat_service.switch_system(new)
SwSwitch ==
    /\ SwCalls < MaxSwitches
    /\ \E new \in SwitchTypes :
         \E fails \in BOOLEAN :
           LET r == switch_system(sv_system_type, sv_agent_system, new, fails)
           IN /\ sv_system_type' = r.system_type
              /\ sv_agent_system' = r.agent_system
              /\ sv_switch' = [called |-> TRUE, n |-> SwCalls + 1,
                               old_type |-> sv_system_type,
                               old_system |-> sv_agent_system,
                               new |-> new,
                               failed |-> fails /\ CanFail(new)]
    /\ UNCHANGED <<sv_pc, sv_values, sv_checkpoint, sv_events, sv_auth, sv_final, sv_bg>>
    /\ UNCHANGED graphVars
    /\ UNCHANGED dtVars
    /\ UNCHANGED wrVars
    /\ UNCHANGED rtVars

\* await self._get_agent_system(), as stream_chat calls it
SwGetSystem ==
    /\ \E fails \in BOOLEAN :
         LET g == get_agent_system(sv_system_type, sv_agent_system, fails)
         IN /\ sv_system_type' = g.system_type
            /\ sv_agent_system' = g.agent_system
    /\ UNCHANGED <<sv_pc, sv_values, sv_checkpoint, sv_events, sv_auth, sv_final, sv_bg,
                   sv_switch>>
    /\ UNCHANGED graphVars
    /\ UNCHANGED dtVars
    /\ UNCHANGED wrVars
    /\ UNCHANGED rtVars

NextSwitch == SwSwitch \/ SwGetSystem

SpecSwitch == InitSwitch /\ [][NextSwitch]_vars

----------------------------------------------------------------------------
(* The retry controller applied to one state *)

\* The logs given to the controller: a question; a question and a final
\* answer; a question, a tool call and its result.
RtLogs ==
    {<<HumanMessage(UserContent)>>,
     <<HumanMessage(UserContent), AIMessage(1, FALSE, <<>>, "Broker")>>,
     <<HumanMessage(UserContent),
       AIMessage(0, FALSE, CallsOf(<<DomainTool>>, 1), "Broker"),
       ToolResult(CallsOf(<<DomainTool>>, 1)[1])>>}

RtFeedbacks ==
    {Feedback("llm", FALSE), Feedback("direct_json", FALSE),
     Feedback("transfer_loop", TRUE), Feedback("simultaneous_transfers", TRUE)}

RtInit ==
    /\ rt_phase = "input"
    /\ \E msgs \in RtLogs :
         \E cur \in {"Broker", "Concierge_Agent"} :
           \/ rt_in = [messages |-> msgs, current_agent |-> cur, retry_context |-> NoRetry]
           \/ \E fb \in RtFeedbacks :
                \E n \in 0..MaxRetryCount :
                  rt_in = [messages |-> msgs, current_agent |-> cur,
                           retry_context |->
                              [NewRetryContext(1, fb) EXCEPT !.retry_count = n]]
    /\ rt_out = [op |-> None]

InitRetry == GraphInit /\ DtIdle /\ WrIdle /\ SvIdle /\ RtInit

RtDecide ==
    /\ rt_phase = "input"
    /\ LET d == decide_after_validation(rt_in.retry_context)
       IN rt_out' = [op |-> "decide_after_validation", route |-> d.route,
                     retry_context |-> d.retry_context, messages |-> rt_in.messages]
    /\ rt_phase' = "done"
    /\ UNCHANGED rt_in
    /\ UNCHANGED graphVars
    /\ UNCHANGED dtVars
    /\ UNCHANGED wrVars
    /\ UNCHANGED svVars

RtHandleFailure ==
    /\ rt_phase = "input"
    /\ LET h == handle_validation_failure(rt_in.messages, rt_in.retry_context,
                                          rt_in.current_agent)
       IN rt_out' = [op |-> "handle_validation_failure",
                     route |-> route_after_failure(rt_in.current_agent),
                     retry_context |-> h.retry_context, messages |-> h.messages]
    /\ rt_phase' = "done"
    /\ UNCHANGED rt_in
    /\ UNCHANGED graphVars
    /\ UNCHANGED dtVars
    /\ UNCHANGED wrVars
    /\ UNCHANGED svVars

NextRetry == RtDecide \/ RtHandleFailure

SpecRetry == InitRetry /\ [][NextRetry]_vars

----------------------------------------------------------------------------
(* Properties *)

CountEvents(kind) == Len(SelectSeq(events, LAMBDA e : e.event = kind))

FinalAgentMessages(msgs) ==
    SelectSeq(msgs, LAMBDA m : IsAI(m) /\ m.tool_calls = <<>>)

\* C1: whatever the validator answers, the same agent is re-executed because
\* of validation failures at most max_retries (2) times; a rejection after
\* that takes the exhausted branch instead of going to handle_failure again.
C1_RetriesExhaust ==
    /\ reexec <= max_retries
    /\ (node = "handle_failure" => reexec < max_retries)

\* C2: retry_context is None or carries a retry_count between 0 and the
\* retry bound, in every reachable state of a turn.
C2_RetryCountBounded ==
    \/ retry_context = NoRetry
    \/ (0 <= retry_context.retry_count /\ retry_context.retry_count <= max_retries)

\* C2 witness: a retry cycle is in flight for the second time in the turn.
C2_Witness ==
    /\ retry_context # NoRetry
    /\ retry_context.retry_count = 1
    /\ reexec >= 1
    /\ node \in Agents

\* C3: when the most recent handoff was made by B to A and A, the current
\* agent, issues transfer_to_B, detect_transfer_loop returns an immediate
\* loop naming B and the Router blocks the handoff: should_continue returns
\* "tools" and current_agent stays A.
C3_ImmediateLoopBlocked ==
    (/\ last_route.step > 0
     /\ last_route.decision.target # None
     /\ last_route.decision.target # last_route.agent
     /\ last_route.previous_handoff =
          [from |-> last_route.decision.target, to |-> last_route.agent])
    => /\ last_route.detected.is_loop
       /\ last_route.detected.kind = "Immediate loop"
       /\ last_route.detected.a = last_route.decision.target
       /\ last_route.decision.route = "tools"
       /\ last_route.decision.current_agent = last_route.agent

\* C4: an agent response with two or more transfer_to_ calls is never
\* accepted as a handoff: should_continue returns "tools", current_agent and
\* transfer_history are unchanged and the Loop Detector is not run.
C4_SimultaneousTransfersRejected ==
    last_route.transfers >= 2
    => /\ last_route.decision.route = "tools"
       /\ last_route.decision.current_agent = last_route.agent
       /\ last_route.decision.transfer_history = last_route.history_before
       /\ ~last_route.decision.consulted

\* C5: an agent response that contains transfer_to_<current_agent> never
\* leads to a handoff: should_continue returns "tools", current_agent and
\* transfer_history are unchanged, the Loop Detector is not consulted for
\* the self-transfer, and the handoff tool returns an error.
C5_SelfTransferRejected ==
    last_route.self_transfer
    => /\ last_route.decision.route = "tools"
       /\ last_route.decision.current_agent = last_route.agent
       /\ last_route.decision.transfer_history = last_route.history_before
       /\ (last_route.decision.target = last_route.agent
             => ~last_route.decision.consulted)
       /\ handoff_tool(last_route.agent, last_route.decision.current_agent).kind = "error"

\* C6: no llm_message event carries the content of a candidate response
\* that the validator rejects.
C6_RejectionsInvisible ==
    \A i \in 1..Len(events) :
        events[i].event = "llm_message" => events[i].content \notin rejected

\* The turn has ended after the validator rejected two candidates and judged
\* the third valid.
ScenarioD ==
    /\ node = END
    /\ Cardinality(rejected) = 2
    /\ judged.verdict = "valid"
    /\ judged.ret.called
    /\ judged.route = "suggestion_agent"

\* C7: when the validator rejects the first two candidate final responses
\* and accepts the third, the turn ends with retry_context = None, the log
\* has gained exactly one final agent message, the accepted one, and exactly
\* two validation_failed events were emitted.
C7_ScenarioD ==
    ScenarioD
    => /\ retry_context = NoRetry
       /\ Len(FinalAgentMessages(messages)) = 1
       /\ FinalAgentMessages(messages)[1].content = judged.candidate
       /\ judged.candidate \notin rejected
       /\ CountEvents("validation_failed") = 2

\* C7 witness: the scenario has happened with three executions of the agent.
C7_Witness == ScenarioD /\ steps = 3 /\ reexec = 2

\* The external judgment was called and raised or returned None.
JudgmentFailed == judged.ret.called /\ judged.verdict \in {"raises", "none"}

\* C8: when the external judgment raises or returns None, the validation
\* step yields retry_context = None, emits no validation_failed event,
\* removes no message, and the Router goes on to suggestion_agent as it does
\* for a response judged valid.
C8_FailOpen ==
    JudgmentFailed
    => /\ judged.ret.has_key
       /\ judged.ret.retry_context = NoRetry
       /\ judged.ret.events = <<>>
       /\ judged.ret = validate_agent_response(judged.messages_before, current_agent, "valid")
       /\ judged.route = "suggestion_agent"
       /\ judged.candidate \notin rejected
       /\ retry_context = NoRetry
       /\ messages = judged.messages_before
       /\ node \in {"suggestion_agent", END}

\* C8 witness: the judgment raised and the turn has ended.
C8_Witness == JudgmentFailed /\ judged.verdict = "raises" /\ node = END

\* The transfers of the window between dt_current and dt_target.
PairTransfers ==
    SelectSeq(dt_transfers, LAMBDA t : /\ t.from \in {dt_current, dt_target}
                                       /\ t.to \in {dt_current, dt_target})

StrictlyAlternating(ts) ==
    \A i \in 1..(Len(ts) - 1) : ts[i].from = ts[i + 1].to /\ ts[i].to = ts[i + 1].from

\* C9: on a window in which the transfers between the two agents strictly
\* alternate direction and number at least loop_threshold,
\* detect_ping_pong_pattern returns true.
C9_PingPongDetected ==
    (/\ dt_phase = "done"
     /\ Len(PairTransfers) >= loop_threshold
     /\ StrictlyAlternating(PairTransfers))
    => dt_result.ping_pong

\* C9 witness: an alternation of three transfers, with other transfers in
\* the window, was detected.
C9_Witness ==
    /\ dt_phase = "done"
    /\ Len(PairTransfers) >= 3
    /\ StrictlyAlternating(PairTransfers)
    /\ Len(dt_transfers) > Len(PairTransfers)
    /\ dt_result.ping_pong

PairIndices ==
    {i \in 1..Len(dt_transfers) : /\ dt_transfers[i].from \in {dt_current, dt_target}
                                  /\ dt_transfers[i].to \in {dt_current, dt_target}}

\* A transfer to or from a third agent lies between the two most recent
\* transfers of the pair.
ThirdAgentBetween ==
    \E p, q \in PairIndices :
        /\ p < q
        /\ q = MaxIndex(PairIndices)
        /\ p = MaxIndex(PairIndices \ {q})
        /\ q - p > 1

\* C10: detect_ping_pong_pattern returns false when the window holds fewer
\* than loop_threshold transfers between the pair, when the transfers
\* between the pair do not alternate direction, and when a transfer to or
\* from a third agent lies between the pair's most recent transfers.
C10_NoFalsePingPong ==
    (/\ dt_phase = "done"
     /\ \/ Len(PairTransfers) < loop_threshold
        \/ ~StrictlyAlternating(PairTransfers)
        \/ ThirdAgentBetween)
    => ~dt_result.ping_pong

\* C11: in every state after initialize_tracker current_agent is a
\* registered agent that is not a spectator (Broker, lead_seeker,
\* Market_Analyst or Concierge_Agent), whatever the names of the handoff
\* tool calls of the responses.
C11_CurrentAgentRegistered ==
    node # "load_memory" => current_agent \in Agents /\ ~is_spectator_agent(current_agent)

\* C12: a step of a spectator agent (validator, suggestion_agent) leaves
\* current_agent as it was, whatever the spectator's function returns.
C12_SpectatorKeepsCurrentAgent ==
    [][(node \in SpectatorAgents) => (current_agent' = current_agent)]_vars

\* C12 witness: after a handoff, the validator and the suggestion agent have
\* run and the turn has ended.
C12_Witness ==
    /\ node = END
    /\ judged.verdict # None
    /\ transfer_history # <<>>
    /\ current_agent = Last(transfer_history).to
    /\ current_agent \in Agents \ {"Broker"}

\* The wrapper of an agent of the graph has returned.
AgentStepReturned ==
    wr_phase = "done" /\ wr_in.agent \in Agents /\ ~wr_out.raised

\* The log as it had grown during the step: the log received and the
\* response, when there is one.
GrownLog ==
    IF wr_in.response.kind = "nothing" THEN wr_in.messages
    ELSE Append(wr_in.messages, Last(wr_out.messages))

\* C13: the log an agent step returns has at most MAX_MESSAGES (30)
\* messages; when the log had grown beyond that, it is the original first
\* message followed by the 29 most recent messages in their order, and
\* otherwise it is the log as it had grown.
C13_LogCapped ==
    AgentStepReturned
    => /\ Len(wr_out.messages) <= 30
       /\ (wr_in.response.kind # "nothing"
             => /\ IsAI(Last(wr_out.messages))
                /\ Last(wr_out.messages).agent = wr_in.agent
                /\ Last(wr_out.messages) \notin {wr_in.messages[i] : i \in 1..Len(wr_in.messages)})
       /\ (Len(GrownLog) > 30
             => /\ Len(wr_out.messages) = 30
                /\ wr_out.messages[1] = GrownLog[1]
                /\ \A i \in 2..30 : wr_out.messages[i] = GrownLog[Len(GrownLog) - 30 + i])
       /\ (Len(GrownLog) <= 30 => wr_out.messages = GrownLog)

\* C13 witness: an agent step has returned a log that was trimmed: the
\* first message is still first, the second one is gone.
C13_Witness ==
    /\ AgentStepReturned
    /\ Len(GrownLog) = 32
    /\ Len(wr_out.messages) = 30
    /\ wr_out.messages[1] = wr_in.messages[1]
    /\ wr_out.messages[2] = wr_in.messages[4]

TurnEndedAccepted ==
    /\ node = END
    /\ judged.verdict # None
    /\ judged.candidate # 0
    /\ judged.route = "suggestion_agent"
    /\ judged.candidate \notin rejected
    /\ messages # <<>>
    /\ IsAI(Last(messages))
    /\ Last(messages).content = judged.candidate

\* C15: a turn that ends with an accepted final agent message has emitted
\* an llm_message event whose content is that message, also when the
\* message was produced by a re-execution after a validation failure.
C15_AcceptedMessageEmitted ==
    TurnEndedAccepted
    => \E i \in 1..Len(events) :
          events[i].event = "llm_message" /\ events[i].content = judged.candidate

\* The Router accepted a handoff: the first transfer call of the response
\* names another agent and the detector found no loop.
HandoffAccepted(lr) ==
    /\ lr.step > 0
    /\ lr.decision.target # None
    /\ lr.decision.target # lr.agent
    /\ ~lr.detected.is_loop

\* C16: when the Router accepts a handoff from the current agent A to a
\* target B, the record (from A, to B, index of the handoff message) is the
\* last element of transfer_history, current_agent is B and B is the next
\* node.
C16_AcceptedHandoff ==
    [][(steps' = steps + 1 /\ HandoffAccepted(last_route'))
        => /\ transfer_history' # <<>>
           /\ Last(transfer_history').from = last_route'.agent
           /\ Last(transfer_history').to = last_route'.decision.target
           /\ messages'[Last(transfer_history').message_index + 1] = Last(messages')
           /\ TransferCalls(Last(messages')) # <<>>
           /\ current_agent' = last_route'.decision.target
           /\ node' = last_route'.decision.target]_vars

\* The agent that runs next is the target of the handoff the Router has
\* just accepted.
FirstInvocationAfterHandoff ==
    /\ node \in Agents
    /\ HandoffAccepted(last_route)
    /\ last_route.step = steps
    /\ node = last_route.decision.target
    /\ IsAI(Last(messages))
    /\ TransferCalls(Last(messages)) # <<>>

\* C17: when a handoff from A to B is accepted, the first invocation of B
\* receives as its messages exactly one message, the task_description of
\* the handoff call, and not the log of the conversation.
C17_HandoffInputIsTask ==
    [][(FirstInvocationAfterHandoff /\ steps' = steps + 1)
        => async_wrapper(node, messages, retry_context, current_agent,
                         NoResponse, 0, <<>>).input
             = handoff_input(TransferCalls(Last(messages))[1])]_vars

\* Invocation i has read the checkpoint of the thread and has not ended.
InTurn(i) == sv_pc[i].at \in {"inputs", "running"}

\* The persisted log holds the prompt of invocation i and every message
\* the run of i added.
TurnPersisted(i) ==
    /\ \E n \in 1..Len(sv_checkpoint) : sv_checkpoint[n] = Prompt(i)
    /\ \A k \in 1..sv_pc[i].k :
          \E n \in 1..Len(sv_checkpoint) : sv_checkpoint[n] = StepMessage(i, k)

\* C18: two stream_chat invocations on the same thread never interleave:
\* one reads the checkpoint only after the other has written its final
\* state, and no user message or state update of either turn is lost.
C18_TurnsSerialized ==
    /\ \A i, j \in Invocations : (i # j /\ InTurn(i)) => ~InTurn(j)
    /\ (\A i \in Invocations : sv_pc[i].at = "done")
         => \A i \in Invocations : TurnPersisted(i)

\* The agent that produced the response the validator last rejected.
RejectedAgent == Last(judged.messages_before).agent

\* C19: throughout a retry cycle (rejection by the validator,
\* handle_validation_failure, route_after_failure, re-execution)
\* current_agent does not change, and the agent that is re-executed is the
\* agent whose response was rejected.
C19_RetryKeepsAgent ==
    [][/\ (node \in {"validator", "handle_failure"}) => (current_agent' = current_agent)
       /\ (node = "handle_failure")
            => (node' = RejectedAgent /\ node' = current_agent)
       /\ (node \in Agents /\ retry_context # NoRetry /\ steps' = steps + 1)
            => (/\ last_route'.agent = RejectedAgent
                /\ current_agent = RejectedAgent
                /\ async_wrapper(node, messages, retry_context, current_agent,
                                 NoResponse, 0, <<>>).current_agent = current_agent)]_vars

\* C19 witness: after a handoff, the answer of Concierge_Agent was rejected
\* and Concierge_Agent has been executed again.
C19_Witness ==
    /\ reexec >= 1
    /\ rejected # {}
    /\ transfer_history # <<>>
    /\ last_route.agent = "Concierge_Agent"
    /\ current_agent = "Concierge_Agent"
    /\ last_route.step = 3
    /\ node = "validator"

Decided == rt_phase = "done" /\ rt_out.op = "decide_after_validation"

\* C20: decide_after_validation routes to suggestion_agent when
\* retry_context is absent, to handle_failure when it is present with
\* retry_count < 2, and when it is present with retry_count >= 2 it sets
\* retry_context to None and routes to suggestion_agent.
C20_DecideAfterValidation ==
    Decided
    => /\ rt_in.retry_context = NoRetry
           => rt_out.route = "suggestion_agent" /\ rt_out.retry_context = NoRetry
       /\ (rt_in.retry_context # NoRetry /\ rt_in.retry_context.retry_count < 2)
           => rt_out.route = "handle_failure" /\ rt_out.retry_context = rt_in.retry_context
       /\ (rt_in.retry_context # NoRetry /\ rt_in.retry_context.retry_count >= 2)
           => rt_out.route = "suggestion_agent" /\ rt_out.retry_context = NoRetry

\* C20 witness: the function was applied to a retry_context whose
\* retry_count is 2, cleared it and chose suggestion_agent.
C20_Witness ==
    /\ Decided
    /\ rt_in.retry_context # NoRetry
    /\ rt_in.retry_context.retry_count = 2
    /\ rt_out.route = "suggestion_agent"
    /\ rt_out.retry_context = NoRetry

\* The transfer history of Scenario B
ScenarioB ==
    <<[from |-> "Broker", to |-> "Concierge_Agent"],
      [from |-> "Concierge_Agent", to |-> "Broker"],
      [from |-> "Broker", to |-> "Concierge_Agent"]>>

\* C21: with the transfer history (Broker to Concierge, Concierge to Broker,
\* Broker to Concierge) and current agent Concierge, is_transfer_loop rejects
\* an attempted transfer_to_Broker and its reason names a ping-pong pattern.
C21_ScenarioBPingPong ==
    (/\ dt_phase = "done"
     /\ dt_current = "Concierge_Agent"
     /\ dt_target = "Broker"
     /\ dt_transfers = ScenarioB)
    => /\ dt_result.loop.is_loop
       /\ dt_result.loop.kind = "Ping-pong pattern"

\* The detector reported a loop for the handoff of the last response.
LoopReported ==
    /\ last_route.step > 0
    /\ last_route.decision.consulted
    /\ last_route.detected.is_loop

BlockedHandoffStaysWithAgent ==
    LoopReported
    => /\ last_route.decision.route = "tools"
       /\ loop_prevention_guidance # <<>>
       /\ Last(loop_prevention_guidance).agent = last_route.agent
       /\ Last(loop_prevention_guidance).blocked_transfer = last_route.decision.target
       /\ current_agent = last_route.agent
       /\ node \in {"tools", last_route.agent}

\* The detector reports no loop for a handoff between two agents of the graph.
LoopOnlyForPlaceholder ==
    LoopReported => last_route.decision.target \notin Agents

\* The log holds a final agent message after the last user message: the
\* response the step validates.
HasCandidate(msgs) == LastAIMessageIndex(msgs) # 0 /\ LastUserMessageIndex(msgs) # 0

\* The pre-checks that trigger on the log msgs, in the order of the step.
\* They are checks of the response found: none triggers without one.
TriggeredPrechecks(msgs, cur) ==
    IF ~HasCandidate(msgs) THEN <<>>
    ELSE (IF TransferLoopPrecheck(msgs, cur) THEN <<"transfer_loop">> ELSE <<>>)
         \o (IF msgs[LastAIMessageIndex(msgs)].json THEN <<"direct_json">> ELSE <<>>)
         \o (IF SimultaneousTransferPrecheck(msgs)
             THEN <<"simultaneous_transfers">> ELSE <<>>)

\* C23: in every validation step the external judgment is called only if no
\* pre-check triggered (transfer loop, JSON written in the response, several
\* transfer calls in one recent agent message); when a pre-check triggers the
\* step returns a retry_context with the reason of that pre-check and
\* retry_count 0, and emits exactly one validation_failed event.
C23_PrechecksBeforeJudgment ==
    [][(node = "validator" /\ judged' # judged)
        => LET pre == TriggeredPrechecks(messages, current_agent)
           IN /\ judged'.ret.called => pre = <<>>
              /\ pre # <<>>
                   => /\ ~judged'.ret.called
                      /\ judged'.ret.has_key
                      /\ judged'.ret.retry_context # NoRetry
                      /\ judged'.ret.retry_context.retry_count = 0
                      /\ judged'.ret.retry_context.feedback.kind = pre[1]
                      /\ retry_context' = judged'.ret.retry_context
                      /\ Len(events') = Len(events) + 1
                      /\ Last(events').event = "validation_failed"
                      /\ Last(events').feedback = pre[1]]_vars

\* C23 witness: the validator rejected a response because of two transfer
\* calls in one recent agent message, without calling the model.
C23_Witness ==
    /\ node = "handle_failure"
    /\ judged.ret.precheck = "simultaneous_transfers"
    /\ ~judged.ret.called
    /\ SimultaneousTransferPrecheck(messages)
    /\ CountEvents("validation_failed") = 1

\* C24: at every point of a conversation the transfer history derived from
\* the message log by extract_recent_transfers agrees with the handoffs the
\* Router accepted, as recorded in transfer_history: the same records with
\* the same from and to agents in the same order, and none for a handoff
\* that was rejected or whose message was discarded.
C24_DerivedHistoryAgrees ==
    LET derived == extract_recent_transfers(messages)
    IN /\ Len(derived) = Len(transfer_history)
       /\ \A i \in 1..Len(derived) :
             /\ derived[i].from = transfer_history[i].from
             /\ derived[i].to = transfer_history[i].to

\* C25: the background memory task scheduled at the end of a turn processes
\* the conversation state as that turn finalized it, also when the next
\* turn of the thread has started or completed before the task runs.
C25_BackgroundSeesOwnTurn ==
    \A i \in Invocations :
        sv_bg[i].ran => sv_bg[i].messages = background_messages(sv_final[i])

\* C26: an exception raised while the graph runs a turn does not escape
\* stream_chat: the events of the invocation end with a system_error event,
\* the only one, and the generator completes.
C26_RunErrorsContained ==
    \A i \in Invocations :
        sv_pc[i].raised
        => /\ ~sv_pc[i].escaped
           /\ sv_pc[i].at \in {"scheduled", "done"}
           /\ sv_events[i] # <<>>
           /\ Last(sv_events[i]).event = "system_error"
           /\ Len(SelectSeq(sv_events[i], LAMBDA e : e.event = "system_error")) = 1

\* C26 witness: a run raised after it had yielded an event, and the
\* invocation has completed.
C26_Witness ==
    \E i \in Invocations :
        /\ sv_pc[i].raised
        /\ sv_pc[i].k >= 1
        /\ Len(sv_events[i]) = sv_pc[i].k + 1
        /\ sv_pc[i].at = "done"

\* C29: for a user that is not authenticated, when the persisted log holds
\* 30 or more messages, stream_chat yields exactly two events (an
\* llm_message asking to log in, then a tool_end named request_login), runs
\* no agent system, leaves the persisted state unchanged and schedules no
\* background task; with fewer than 30 messages the turn goes on.
C29_MessageLimit ==
    [][\A i \in Invocations :
         /\ (~sv_auth /\ sv_pc[i].at = "start" /\ sv_pc'[i].at # "start")
              => IF Len(sv_checkpoint) >= 30
                 THEN /\ sv_pc'[i].at = "returned"
                      /\ Len(sv_events'[i]) = 2
                      /\ sv_events'[i][1].event = "llm_message"
                      /\ sv_events'[i][2].event = "tool_end"
                      /\ sv_events'[i][2].name = "request_login"
                      /\ sv_checkpoint' = sv_checkpoint
                      /\ sv_values'[i] = <<>>
                      /\ sv_bg'[i] = NoBackground
                 ELSE /\ sv_pc'[i].at = "checked"
                      /\ sv_events'[i] = <<>>
         /\ (sv_pc[i].at = "returned")
              => /\ sv_pc'[i] = sv_pc[i]
                 /\ sv_events'[i] = sv_events[i]
                 /\ sv_values'[i] = <<>>
                 /\ sv_bg'[i] = NoBackground
         /\ (~sv_auth /\ sv_pc[i].at = "checked" /\ sv_pc[i].seen < 30)
              => sv_pc'[i].at \in {"checked", "inputs"}]_vars

\* C29 witness: the user is not authenticated, the log held 30 messages, the
\* invocation has returned after the two events, and every other request of
\* the thread has been answered.
C29_Witness ==
    /\ ~sv_auth
    /\ \E i \in Invocations :
          /\ sv_pc[i].at = "returned"
          /\ sv_pc[i].seen = 30
          /\ sv_events[i] = LoginEvents
          /\ Len(sv_checkpoint) = 30
    /\ \A j \in Invocations : sv_pc[j].at = "returned"

\* C30: if switch_system(new_type) fails to initialise the new agent system,
\* the service reverts to the previous system: get_current_system_type()
\* returns the type that was active before the call and the agent system
\* in use is the one of that type; if the initialisation succeeds, the type
\* is new_type.
C30_SwitchReverts ==
    (sv_switch.called /\ sv_switch.new # sv_switch.old_type)
    => IF sv_switch.failed
       THEN /\ get_current_system_type(sv_system_type) = sv_switch.old_type
            /\ get_agent_system(sv_system_type, sv_agent_system, FALSE).agent_system
                 = SystemOf(sv_switch.old_type)
       ELSE get_current_system_type(sv_system_type) = sv_switch.new

\* A switch whose initialisation succeeds leaves the service with the new type.
SwitchSucceeds ==
    (sv_switch.called /\ sv_switch.new # sv_switch.old_type /\ ~sv_switch.failed)
    => get_current_system_type(sv_system_type) = sv_switch.new

FailureHandled == rt_phase = "done" /\ rt_out.op = "handle_validation_failure"

\* The log without its last message when that is an agent message
WithoutLastAgentMessage(msgs) ==
    IF msgs # <<>> /\ Last(msgs).type = "ai"
    THEN [i \in 1..(Len(msgs) - 1) |-> msgs[i]]
    ELSE msgs

\* C27: handle_validation_failure, called with a retry_context, removes
\* exactly the last message of the log when that is an agent message, leaves
\* the other messages as they are, and returns a retry_context equal to the
\* previous one except that retry_count is increased by exactly 1; called
\* without a retry_context it changes nothing.
C27_HandleFailureFrame ==
    FailureHandled
    => IF rt_in.retry_context = NoRetry
       THEN /\ rt_out.messages = rt_in.messages
            /\ rt_out.retry_context = NoRetry
       ELSE /\ rt_out.messages = WithoutLastAgentMessage(rt_in.messages)
            /\ rt_out.retry_context =
                 [rt_in.retry_context EXCEPT !.retry_count = rt_in.retry_context.retry_count + 1]

\* What holds of handle_validation_failure for every feedback: the log, and
\* the fields of the context other than transfer_guidance.
HandleFailureLogAndCount ==
    FailureHandled
    => IF rt_in.retry_context = NoRetry
       THEN /\ rt_out.messages = rt_in.messages
            /\ rt_out.retry_context = NoRetry
       ELSE /\ rt_out.messages = WithoutLastAgentMessage(rt_in.messages)
            /\ rt_out.retry_context.retry_count = rt_in.retry_context.retry_count + 1
            /\ rt_out.retry_context.feedback = rt_in.retry_context.feedback
            /\ rt_out.retry_context.failed_attempt = rt_in.retry_context.failed_attempt


\* The positions of the events of one kind, in the order of emission
EventPositions(kind) == {i \in 1..Len(events) : events[i].event = kind}

\* C28: within a turn, every tool_start event of a tool call with id c is
\* followed later in the turn by a tool_end event with tool_call_id c, and
\* the tool_end events come in the order in which their calls were issued;
\* also for agent messages with several tool calls and for handoff calls.
C28_ToolStartThenToolEnd ==
    TurnEndedAccepted
    => /\ \A i \in EventPositions("tool_start") :
             \E j \in EventPositions("tool_end") :
                j > i /\ events[j].tool_call_id = events[i].tool_call_id
       /\ \A j1, j2 \in EventPositions("tool_end") :
             j1 < j2 => events[j1].tool_call_id <= events[j2].tool_call_id

\* What holds of the two kinds of event: a tool_end event carries the id of
\* a call whose tool_start event was emitted before it, and the tool_end
\* events follow the order of the calls (the event of a call is written
\* again when the agent is re-executed after a validation failure).
ToolEndAfterItsToolStart ==
    /\ \A j \in EventPositions("tool_end") :
          \E i \in EventPositions("tool_start") :
             i < j /\ events[i].tool_call_id = events[j].tool_call_id
    /\ \A j1, j2 \in EventPositions("tool_end") :
          j1 < j2 => events[j1].tool_call_id <= events[j2].tool_call_id

====
